---- MODULE Spec2Model ----
(***************************************************************************)
(* A model of barcode/codex.py: the Code 39 symbol table, check_code, the  *)
(* Code39 and PZN classes and the Code 128 charset automaton.              *)
(*                                                                         *)
(* A Python string is a sequence of one-character strings (<<"A", "1">>);  *)
(* a bar/space pattern is a TLA+ string, built with \o exactly as the code *)
(* builds it with join.  A session constructs one object and then calls    *)
(* its methods; a constructor that raises leaves no object behind.         *)
(***************************************************************************)
EXTENDS Integers, Sequences, FiniteSets, TLC

VARIABLES
    cls,      \* class of the live object: "none", "Code39", "PZN", "Code128"
    code,     \* self.code
    pzn,      \* self.pzn (PZN only)
    charset,  \* self._charset (Code128 only)
    buffer,   \* self._buffer (Code128 only)
    op,       \* the last operation called ("start" before any)
    arg,      \* the string argument of that operation
    flag,     \* add_checksum as passed to the constructor
    allow,    \* the `allowed` argument of the last check_code call
    exc,      \* the exception the last operation raised, or "none"
    wrong,    \* the `wrong` list of check_code when it raised
    ret,      \* <<v>> when the last operation returned v, <<>> for None / raised
    steps,    \* the order of the internal steps of the last operation
    lastpos,  \* the position passed to the last _maybe_switch_charset call
    builds    \* the outcomes of the build calls made on the live object

vars == <<cls, code, pzn, charset, buffer, op, arg, flag, allow, exc, wrong,
          ret, steps, lastpos, builds>>

----------------------------------------------------------------------------
(* Bounds of the explored inputs.                                          *)

MaxLen39 == 3
MaxLenCheck == 3
MaxLenPzn == 7
MaxLen128 == 5
MaxBuilds == 2

----------------------------------------------------------------------------
(* Module constants, codex.py lines 17-46.                                 *)

Digits == <<"0", "1", "2", "3", "4", "5", "6", "7", "8", "9">>

AsciiUppercase ==
    <<"A", "B", "C", "D", "E", "F", "G", "H", "I", "J", "K", "L", "M",
      "N", "O", "P", "Q", "R", "S", "T", "U", "V", "W", "X", "Y", "Z">>

AsciiLowercase ==
    <<"a", "b", "c", "d", "e", "f", "g", "h", "i", "j", "k", "l", "m",
      "n", "o", "p", "q", "r", "s", "t", "u", "v", "w", "x", "y", "z">>

REF == Digits \o AsciiUppercase \o <<"-", ".", " ", "$", "/", "+", "%">>

CODES ==
    <<"101000111011101", "111010001010111", "101110001010111",
      "111011100010101", "101000111010111", "111010001110101",
      "101110001110101", "101000101110111", "111010001011101",
      "101110001011101", "111010100010111", "101110100010111",
      "111011101000101", "101011100010111", "111010111000101",
      "101110111000101", "101010001110111", "111010100011101",
      "101110100011101", "101011100011101", "111010101000111",
      "101110101000111", "111011101010001", "101011101000111",
      "111010111010001", "101110111010001", "101010111000111",
      "111010101110001", "101110101110001", "101011101110001",
      "111000101010111", "100011101010111", "111000111010101",
      "100010111010111", "111000101110101", "100011101110101",
      "100010101110111", "111000101011101", "100011101011101",
      "100010001000101", "100010001010001", "100010100010001",
      "101000100010001">>

EDGE == "100010111011101"

MIDDLE == "0"

Range(s) == {s[k] : k \in 1..Len(s)}

Min(a, b) == IF a < b THEN a ELSE b

\* zip(REF, enumerate(CODES)) stops at the shorter of the two.
MapLen == Min(Len(REF), Len(CODES))

\* The keys of MAP.
MapKeys == {REF[k] : k \in 1..MapLen}

\* MAP[c]: (reference number, barcode).  No character occurs twice in REF,
\* so each key has one position.
MAP(c) ==
    LET k == CHOOSE j \in 1..MapLen : REF[j] = c
    IN  [num |-> k - 1, bars |-> CODES[k]]

----------------------------------------------------------------------------
(* Python string primitives used by the code.                              *)

\* str.upper() on one character of the explored alphabet.
UpperChar(c) ==
    IF c \in Range(AsciiLowercase)
        THEN AsciiUppercase[CHOOSE k \in 1..Len(AsciiLowercase) :
                                AsciiLowercase[k] = c]
        ELSE c

Upper(s) == [k \in 1..Len(s) |-> UpperChar(s[k])]

\* c.isdigit() for one character of the explored alphabet.
IsDigitChar(c) == c \in Range(Digits)

\* s.isdigit(): every character a digit, and at least one character.
IsDigit(s) == Len(s) > 0 /\ \A k \in 1..Len(s) : IsDigitChar(s[k])

\* int(c) for a digit character.
IntOf(c) == (CHOOSE k \in 1..Len(Digits) : Digits[k] = c) - 1

\* '{0}'.format(n) for 0 <= n <= 9.
FormatDigit(n) == <<Digits[n + 1]>>

\* s[a:b] with 0 <= a (0-based, end exclusive, clipped to the string).
Slice(s, a, b) == SubSeq(s, a + 1, Min(b, Len(s)))

RECURSIVE SumSeq(_)
SumSeq(s) == IF s = <<>> THEN 0 ELSE Head(s) + SumSeq(Tail(s))

\* sep.join(list) over a list of strings.
RECURSIVE Join(_, _)
Join(sep, list) ==
    IF list = <<>> THEN ""
    ELSE IF Len(list) = 1 THEN list[1]
    ELSE list[1] \o sep \o Join(sep, Tail(list))

----------------------------------------------------------------------------
(* check_code, lines 49-57.                                                *)

\* The loop of lines 51-53 from position k on, `acc` the list so far.
RECURSIVE CheckLoop(_, _, _, _)
CheckLoop(s, allowed, k, acc) ==
    IF k > Len(s) THEN acc
    ELSE CheckLoop(s, allowed, k + 1,
                   IF s[k] \notin allowed THEN Append(acc, s[k]) ELSE acc)

\* check_code reporting only the first offending character.
check_code_first(s, allowed) ==
    LET w == CheckLoop(s, allowed, 1, <<>>)
    IN  IF w # <<>>
            THEN [exc |-> "IllegalCharacterError", wrong |-> <<w[1]>>]
            ELSE [exc |-> "none", wrong |-> <<>>]

check_code(s, allowed) ==
    LET w == CheckLoop(s, allowed, 1, <<>>)
    IN  IF w # <<>>
            THEN [exc |-> "IllegalCharacterError", wrong |-> w]
            ELSE [exc |-> "none", wrong |-> <<>>]

----------------------------------------------------------------------------
(* class Code39, lines 60-106.                                             *)

\* calculate_checksum taking the sum modulo 44.
Code39_calculate_checksum_mod44(s) ==
    IF \E k \in 1..Len(s) : s[k] \notin MapKeys
        THEN [exc |-> "KeyError", val |-> <<>>]
        ELSE LET check == SumSeq([k \in 1..Len(s) |-> MAP(s[k]).num]) % 44
                 hits == {k \in 1..MapLen : MAP(REF[k]).num = check}
             IN  IF hits = {}
                     THEN [exc |-> "none", val |-> <<>>]
                     ELSE [exc |-> "none",
                           val |-> <<REF[CHOOSE k \in hits :
                                             \A m \in hits : k <= m]>>]

\* Code39.calculate_checksum, lines 90-94, on self.code = s.  MAP[x] raises
\* KeyError for x outside MAP; the loop over MAP.items() returns the first key
\* whose reference number is `check`, and falls through to None otherwise.
Code39_calculate_checksum(s) ==
    IF \E k \in 1..Len(s) : s[k] \notin MapKeys
        THEN [exc |-> "KeyError", val |-> <<>>]
        ELSE LET check == SumSeq([k \in 1..Len(s) |-> MAP(s[k]).num]) % 43
                 hits == {k \in 1..MapLen : MAP(REF[k]).num = check}
             IN  IF hits = {}
                     THEN [exc |-> "none", val |-> <<>>]
                     ELSE [exc |-> "none",
                           val |-> <<REF[CHOOSE k \in hits :
                                             \A m \in hits : k <= m]>>]

\* Code39.__init__, lines 75-80 (the writer is not modelled).
Code39_init(c, add_checksum) ==
    LET up == Upper(c)
        cs == Code39_calculate_checksum(up)
    IN  IF add_checksum /\ cs.exc # "none"
            THEN [exc |-> cs.exc, code |-> up, wrong |-> <<>>,
                  steps |-> <<"upper", "calculate_checksum">>]
        ELSE IF add_checksum /\ cs.val = <<>>
            \* self.code += None
            THEN [exc |-> "TypeError", code |-> up, wrong |-> <<>>,
                  steps |-> <<"upper", "calculate_checksum">>]
        ELSE LET full == IF add_checksum THEN up \o cs.val ELSE up
                 chk == check_code(full, Range(REF))
             IN  [exc |-> chk.exc, code |-> full, wrong |-> chk.wrong,
                  steps |-> IF add_checksum
                      THEN <<"upper", "calculate_checksum", "check_code">>
                      ELSE <<"upper", "check_code">>]

\* build joining only the character patterns and the closing EDGE.
Code39_build_nogap(s) ==
    IF \E k \in 1..Len(s) : s[k] \notin MapKeys
        THEN [exc |-> "KeyError", val |-> <<>>]
        ELSE LET chars == [k \in 1..Len(s) |-> MAP(s[k]).bars] \o <<EDGE>>
             IN  [exc |-> "none", val |-> <<EDGE \o Join(MIDDLE, chars)>>]

\* Code39.build, lines 96-101: a list holding one joined string.
Code39_build(s) ==
    IF \E k \in 1..Len(s) : s[k] \notin MapKeys
        THEN [exc |-> "KeyError", val |-> <<>>]
        ELSE LET chars == <<EDGE>> \o [k \in 1..Len(s) |-> MAP(s[k]).bars]
                              \o <<EDGE>>
             IN  [exc |-> "none", val |-> <<Join(MIDDLE, chars)>>]

----------------------------------------------------------------------------
(* class PZN, lines 109-144.                                               *)

\* PZN.digits, line 121.
PznDigits == 6

\* 'PZN-'
PznPrefix == <<"P", "Z", "N", "-">>

\* calculate_checksum with enumerate starting at 1.
PZN_calculate_checksum_from1(p) ==
    LET sum_ == SumSeq([k \in 1..Len(p) |-> k * IntOf(p[k])])
        checksum == sum_ % 11
    IN  IF checksum = 10
            THEN [exc |-> "BarcodeError", val |-> <<>>]
            ELSE [exc |-> "none", val |-> <<checksum>>]

\* calculate_checksum putting 0 in the place of a checksum of 10.
PZN_calculate_checksum_placeholder(p) ==
    LET sum_ == SumSeq([k \in 1..Len(p) |-> (k + 1) * IntOf(p[k])])
        checksum == sum_ % 11
    IN  [exc |-> "none", val |-> <<IF checksum = 10 THEN 0 ELSE checksum>>]

\* PZN.calculate_checksum, lines 138-144, on self.pzn = p (all digits):
\* enumerate(p, start=2) pairs position k (1-based) with the weight k + 1.
PZN_calculate_checksum(p) ==
    LET sum_ == SumSeq([k \in 1..Len(p) |-> (k + 1) * IntOf(p[k])])
        checksum == sum_ % 11
    IN  IF checksum = 10
            THEN [exc |-> "BarcodeError", val |-> <<>>]
            ELSE [exc |-> "none", val |-> <<checksum>>]

\* __init__ testing the number of digits after the checksum.
PZN_init_late_len(a) ==
    LET p == Slice(a, 0, 6)
        cs == PZN_calculate_checksum(p)
    IN  IF ~IsDigit(p)
            THEN [exc |-> "IllegalCharacterError", pzn |-> <<>>, code |-> <<>>,
                  wrong |-> <<>>, steps |-> <<"slice", "isdigit">>]
        ELSE IF cs.exc # "none"
            THEN [exc |-> cs.exc, pzn |-> p, code |-> <<>>, wrong |-> <<>>,
                  steps |-> <<"slice", "isdigit", "PZN.calculate_checksum">>]
        ELSE IF Len(p) # 6
            THEN [exc |-> "NumberOfDigitsError", pzn |-> <<>>, code |-> <<>>,
                  wrong |-> <<>>,
                  steps |-> <<"slice", "isdigit", "PZN.calculate_checksum",
                              "len">>]
        ELSE LET full == p \o FormatDigit(cs.val[1])
                 base == Code39_init(<<"P", "Z", "N", "-">> \o full, FALSE)
             IN  [exc |-> base.exc, pzn |-> full, code |-> base.code,
                  wrong |-> base.wrong,
                  steps |-> <<"slice", "isdigit", "PZN.calculate_checksum",
                              "len", "Code39.__init__">> \o base.steps]

\* PZN.__init__, lines 123-133.
PZN_init(a) ==
    LET p == Slice(a, 0, PznDigits)
        cs == PZN_calculate_checksum(p)
    IN  IF ~IsDigit(p)
            THEN [exc |-> "IllegalCharacterError", pzn |-> <<>>, code |-> <<>>,
                  wrong |-> <<>>, steps |-> <<"slice", "isdigit">>]
        ELSE IF Len(p) # PznDigits
            THEN [exc |-> "NumberOfDigitsError", pzn |-> <<>>, code |-> <<>>,
                  wrong |-> <<>>, steps |-> <<"slice", "isdigit", "len">>]
        ELSE IF cs.exc # "none"
            THEN [exc |-> cs.exc, pzn |-> p, code |-> <<>>, wrong |-> <<>>,
                  steps |-> <<"slice", "isdigit", "len",
                              "PZN.calculate_checksum">>]
        ELSE LET full == p \o FormatDigit(cs.val[1])
                 base == Code39_init(PznPrefix \o full, FALSE)
             IN  [exc |-> base.exc, pzn |-> full, code |-> base.code,
                  wrong |-> base.wrong,
                  steps |-> <<"slice", "isdigit", "len",
                              "PZN.calculate_checksum", "Code39.__init__">>
                            \o base.steps]

\* PZN.get_fullcode, lines 135-136.
PZN_get_fullcode(p) == PznPrefix \o p

----------------------------------------------------------------------------
(* barcode.charsets.code128 and Barcode._convert, as class Code128 uses    *)
(* them.                                                                   *)

\* code128.A.keys(): control characters, digits, upper case, punctuation.
Code128_A == Range(Digits) \cup Range(AsciiUppercase) \cup {" ", "\t"}

\* code128.B.keys(): the printable characters.
Code128_B ==
    Range(Digits) \cup Range(AsciiUppercase) \cup Range(AsciiLowercase)
        \cup {" "}

\* code128.ALL
Code128_ALL == Code128_A \cup Code128_B

\* code128.START_CODES[charset]
START_CODES(cs) == <<"START", cs>>

\* self._convert(x) while self._charset = cs: one symbol.
Convert(cs, x) == <<cs, x>>

----------------------------------------------------------------------------
(* class Code128, lines 147-219.                                           *)

\* Code128.__init__, lines 151-157.
Code128_init(c) ==
    LET chk == check_code(c, Code128_ALL)
    IN  [exc |-> chk.exc, code |-> c, charset |-> "B", buffer |-> <<>>,
         wrong |-> chk.wrong, steps |-> <<"check_code">>]

\* Code128._new_charset, lines 170-178: the switch symbol is converted
\* before self._charset is assigned.
NewCharset(cs, which) ==
    [charset |-> which, codes |-> <<Convert(cs, "TO_" \o which)>>]

\* look_next, lines 184-191, over the window next_.
RECURSIVE LeadingDigits(_)
LeadingDigits(w) ==
    IF w = <<>> \/ ~IsDigitChar(Head(w)) THEN 0
    ELSE 1 + LeadingDigits(Tail(w))

LookNext(next_) == LeadingDigits(next_) > 3

\* Lines 193-214, with char and next_ already bound.
SwitchBranches(char, next_, cs, buf) ==
    IF cs = "C" /\ ~IsDigitChar(char)
        THEN LET sw == IF char \in Code128_B THEN NewCharset(cs, "B")
                       ELSE IF char \in Code128_A THEN NewCharset(cs, "A")
                       ELSE [charset |-> cs, codes |-> <<>>]
             IN  IF Len(buf) = 1
                     THEN [exc |-> "none", charset |-> sw.charset,
                           buffer |-> <<>>,
                           codes |-> Append(sw.codes,
                                            Convert(sw.charset, buf[1]))]
                     ELSE [exc |-> "none", charset |-> sw.charset,
                           buffer |-> buf, codes |-> sw.codes]
    ELSE LET other == IF cs = "B" THEN "A" ELSE "B"
             own == IF cs = "B" THEN Code128_B ELSE Code128_A
             oth == IF cs = "B" THEN Code128_A ELSE Code128_B
             sw == IF cs \notin {"A", "B"}
                       THEN [charset |-> cs, codes |-> <<>>]
                   ELSE IF LookNext(next_) THEN NewCharset(cs, "C")
                   ELSE IF char \notin own /\ char \in oth
                       THEN NewCharset(cs, other)
                   ELSE [charset |-> cs, codes |-> <<>>]
         IN  [exc |-> "none", charset |-> sw.charset, buffer |-> buf,
              codes |-> sw.codes]

\* The integer names in scope at line 182: the parameter pos.  char is a
\* string, self an object, and no module-level name of codex.py (lines
\* 10-46) nor any builtin is called i.
Scope182(pos) == [pos |-> pos]

\* Code128._maybe_switch_charset, lines 180-214: line 182 reads the name i.
MaybeSwitchCharset(s, pos, cs, buf) ==
    LET scope == Scope182(pos)
        char == s[pos + 1]
    IN  IF "i" \notin DOMAIN scope
            THEN [exc |-> "NameError", charset |-> cs, buffer |-> buf,
                  codes |-> <<>>]
            ELSE SwitchBranches(char,
                                Slice(s, scope["i"], scope["i"] + 10),
                                cs, buf)

\* The loop of Code128.build, lines 218-219, from position pos (0-based) on.
RECURSIVE BuildLoop(_, _, _, _, _)
BuildLoop(s, pos, cs, buf, encoded) ==
    IF pos >= Len(s)
        THEN [exc |-> "none", charset |-> cs, buffer |-> buf,
              encoded |-> encoded]
    ELSE LET m == MaybeSwitchCharset(s, pos, cs, buf)
         IN  IF m.exc # "none"
                 THEN [exc |-> m.exc, charset |-> m.charset,
                       buffer |-> m.buffer, encoded |-> encoded]
                 ELSE BuildLoop(s, pos + 1, m.charset, m.buffer,
                                encoded \o m.codes)

\* Code128.build, lines 216-219: the method ends after the loop, so a call
\* that completes returns None.
Code128_build(s, cs, buf) ==
    BuildLoop(s, 0, cs, buf, <<START_CODES(cs)>>)

----------------------------------------------------------------------------
(* The explored inputs.                                                    *)

SeqsUpTo(S, n) == UNION {[1..k -> S] : k \in 0..n}

RefSet == Range(REF)

\* Members of the Code 39 alphabet, lower-case letters, and characters that
\* are outside it even after upper-casing.
Chars39 == {"0", "1", "A", "Z", "z", "-", "+", "%", "*", "#"}

Inputs39 ==
    SeqsUpTo(Chars39, MaxLen39)
        \cup {<<c>> : c \in RefSet} \cup {<<c, d>> : c, d \in RefSet}

CharsPzn == {"0", "1", "9", "A"}

\* Besides the strings over CharsPzn: every digit at every one of the six
\* places, the other places "0".
InputsPzn ==
    SeqsUpTo(CharsPzn, MaxLenPzn)
        \cup {[k \in 1..PznDigits |-> IF k = j THEN d ELSE "0"] :
                  j \in 1..PznDigits, d \in Range(Digits)}

\* "\t" is in subset A only, "a" in B only; "~~" stands for a character
\* outside both.
Chars128 == {"1", "2", "A", "a", "\t", "~~"}

Inputs128 == SeqsUpTo(Chars128, MaxLen128)

CharsCheck == {"1", "A", "a", "*"}

InputsCheck == SeqsUpTo(CharsCheck, MaxLenCheck)

AllowedSets == {RefSet, Range(Digits), Code128_ALL, {}, {"*"}}

----------------------------------------------------------------------------
(* The state machine.                                                      *)

Init ==
    /\ cls = "none"
    /\ code = <<>>
    /\ pzn = <<>>
    /\ charset = ""
    /\ buffer = <<>>
    /\ op = "start"
    /\ arg = <<>>
    /\ flag = FALSE
    /\ allow = {}
    /\ exc = "none"
    /\ wrong = <<>>
    /\ ret = <<>>
    /\ steps = <<>>
    /\ lastpos = -1
    /\ builds = <<>>

\* check_code(s, name, allowed) called on its own.
CheckCode ==
    /\ op = "start"
    /\ \E s \in InputsCheck, al \in AllowedSets :
         LET r == check_code(s, al)
         IN  /\ op' = "check_code"
             /\ arg' = s
             /\ allow' = al
             /\ exc' = r.exc
             /\ wrong' = r.wrong
             /\ ret' = <<>>
             /\ steps' = <<"check_code">>
    /\ UNCHANGED <<cls, code, pzn, charset, buffer, flag, lastpos, builds>>

\* Code39(c, add_checksum=f)
NewCode39 ==
    /\ op = "start"
    /\ \E c \in Inputs39, f \in BOOLEAN :
         LET r == Code39_init(c, f)
         IN  /\ cls' = IF r.exc = "none" THEN "Code39" ELSE "none"
             /\ code' = IF r.exc = "none" THEN r.code ELSE <<>>
             /\ op' = "Code39"
             /\ arg' = c
             /\ flag' = f
             /\ exc' = r.exc
             /\ wrong' = r.wrong
             /\ steps' = r.steps
    /\ ret' = <<>>
    /\ UNCHANGED <<pzn, charset, buffer, allow, lastpos, builds>>

\* Code39.calculate_checksum() on the live object.
CalculateChecksum39 ==
    /\ cls = "Code39"
    /\ LET r == Code39_calculate_checksum(code)
       IN  /\ exc' = r.exc
           /\ ret' = r.val
    /\ op' = "calculate_checksum"
    /\ steps' = <<"calculate_checksum">>
    /\ wrong' = <<>>
    /\ UNCHANGED <<cls, code, pzn, charset, buffer, arg, flag, allow, lastpos, builds>>

\* Code39.get_fullcode() on the live object.
GetFullcode39 ==
    /\ cls = "Code39"
    /\ op' = "get_fullcode"
    /\ exc' = "none"
    /\ ret' = <<code>>
    /\ steps' = <<"get_fullcode">>
    /\ wrong' = <<>>
    /\ UNCHANGED <<cls, code, pzn, charset, buffer, arg, flag, allow, lastpos, builds>>

\* Code39.build() on the live object; PZN inherits it.
Build39 ==
    /\ cls \in {"Code39", "PZN"}
    /\ LET r == Code39_build(code)
       IN  /\ exc' = r.exc
           /\ ret' = IF r.exc = "none" THEN <<r.val>> ELSE <<>>
    /\ op' = "build"
    /\ steps' = <<"build">>
    /\ wrong' = <<>>
    /\ UNCHANGED <<cls, code, pzn, charset, buffer, arg, flag, allow, lastpos, builds>>

\* PZN(a)
NewPZN ==
    /\ op = "start"
    /\ \E a \in InputsPzn :
         LET r == PZN_init(a)
         IN  /\ cls' = IF r.exc = "none" THEN "PZN" ELSE "none"
             /\ code' = IF r.exc = "none" THEN r.code ELSE <<>>
             /\ pzn' = IF r.exc = "none" THEN r.pzn ELSE <<>>
             /\ op' = "PZN"
             /\ arg' = a
             /\ exc' = r.exc
             /\ wrong' = r.wrong
             /\ steps' = r.steps
    /\ ret' = <<>>
    /\ UNCHANGED <<charset, buffer, flag, allow, lastpos, builds>>

\* PZN.get_fullcode() on the live object.
GetFullcodePZN ==
    /\ cls = "PZN"
    /\ op' = "get_fullcode"
    /\ exc' = "none"
    /\ ret' = <<PZN_get_fullcode(pzn)>>
    /\ steps' = <<"get_fullcode">>
    /\ wrong' = <<>>
    /\ UNCHANGED <<cls, code, pzn, charset, buffer, arg, flag, allow, lastpos, builds>>

\* PZN.calculate_checksum() on the live object, whose self.pzn by now holds
\* the check digit too.
CalculateChecksumPZN ==
    /\ cls = "PZN"
    /\ LET r == PZN_calculate_checksum(pzn)
       IN  /\ exc' = r.exc
           /\ ret' = r.val
    /\ op' = "calculate_checksum"
    /\ steps' = <<"PZN.calculate_checksum">>
    /\ wrong' = <<>>
    /\ UNCHANGED <<cls, code, pzn, charset, buffer, arg, flag, allow, lastpos, builds>>

\* Code128(c)
NewCode128 ==
    /\ op = "start"
    /\ \E c \in Inputs128 :
         LET r == Code128_init(c)
         IN  /\ cls' = IF r.exc = "none" THEN "Code128" ELSE "none"
             /\ code' = IF r.exc = "none" THEN r.code ELSE <<>>
             /\ charset' = IF r.exc = "none" THEN r.charset ELSE ""
             /\ buffer' = IF r.exc = "none" THEN r.buffer ELSE <<>>
             /\ op' = "Code128"
             /\ arg' = c
             /\ exc' = r.exc
             /\ wrong' = r.wrong
             /\ steps' = r.steps
    /\ ret' = <<>>
    /\ UNCHANGED <<pzn, flag, allow, lastpos, builds>>

\* Code128.build() on the live object.  `builds` records, per call, the
\* charset the call started from, the symbols it had emitted and how it ended.
Build128 ==
    /\ cls = "Code128"
    /\ Len(builds) < MaxBuilds
    /\ LET r == Code128_build(code, charset, buffer)
       IN  /\ exc' = r.exc
           /\ charset' = r.charset
           /\ buffer' = r.buffer
           /\ builds' = Append(builds, [from |-> charset, buffer |-> buffer,
                                        encoded |-> r.encoded, exc |-> r.exc])
    /\ ret' = <<>>
    /\ op' = "build"
    /\ steps' = <<"build">>
    /\ wrong' = <<>>
    /\ UNCHANGED <<cls, code, pzn, arg, flag, allow, lastpos>>

\* Code128.get_fullcode(), lines 164-165.
GetFullcode128 ==
    /\ cls = "Code128"
    /\ op' = "get_fullcode"
    /\ exc' = "none"
    /\ ret' = <<code>>
    /\ steps' = <<"get_fullcode">>
    /\ wrong' = <<>>
    /\ UNCHANGED <<cls, code, pzn, charset, buffer, arg, flag, allow, lastpos, builds>>

\* Code128.calculate_checksum(), lines 167-168: the empty string.
CalculateChecksum128 ==
    /\ cls = "Code128"
    /\ op' = "calculate_checksum"
    /\ exc' = "none"
    /\ ret' = << <<>> >>
    /\ steps' = <<"calculate_checksum">>
    /\ wrong' = <<>>
    /\ UNCHANGED <<cls, code, pzn, charset, buffer, arg, flag, allow, lastpos, builds>>

\* self._new_charset(which) called directly on the live object.
CallNewCharset ==
    /\ cls = "Code128"
    /\ \E which \in {"A", "B", "C"} :
         LET r == NewCharset(charset, which)
         IN  /\ charset' = r.charset
             /\ ret' = <<r.codes>>
    /\ op' = "_new_charset"
    /\ exc' = "none"
    /\ steps' = <<"_new_charset">>
    /\ wrong' = <<>>
    /\ UNCHANGED <<cls, code, pzn, buffer, arg, flag, allow, lastpos, builds>>

\* self._maybe_switch_charset(p) called directly on the live object.
CallMaybeSwitchCharset ==
    /\ cls = "Code128"
    /\ \E p \in 0..(Len(code) - 1) :
         LET r == MaybeSwitchCharset(code, p, charset, buffer)
         IN  /\ lastpos' = p
             /\ exc' = r.exc
             /\ charset' = r.charset
             /\ buffer' = r.buffer
             /\ ret' = IF r.exc = "none" THEN <<r.codes>> ELSE <<>>
    /\ op' = "_maybe_switch_charset"
    /\ steps' = <<"_maybe_switch_charset">>
    /\ wrong' = <<>>
    /\ UNCHANGED <<cls, code, pzn, arg, flag, allow, builds>>

NextCheck == CheckCode

Next39 == NewCode39 \/ CalculateChecksum39 \/ GetFullcode39 \/ Build39

NextPZN == NewPZN \/ GetFullcodePZN \/ CalculateChecksumPZN \/ Build39

Next128 == NewCode128 \/ Build128 \/ GetFullcode128 \/ CalculateChecksum128

\* The methods of Code128 called one at a time.
Next128Unit == NewCode128 \/ CallNewCharset \/ CallMaybeSwitchCharset

Next == NextCheck \/ Next39 \/ NextPZN \/ Next128 \/ Next128Unit

Spec == Init /\ [][Next]_vars

SpecCheck == Init /\ [][NextCheck]_vars

Spec39 == Init /\ [][Next39]_vars

SpecPZN == Init /\ [][NextPZN]_vars

Spec128 == Init /\ [][Next128]_vars

Spec128Unit == Init /\ [][Next128Unit]_vars

----------------------------------------------------------------------------
(* Vocabulary of the properties, stated from the symbol table alone.       *)

\* The ordinal of a member of the Code 39 alphabet: its place in REF, from 0.
OrdOf(c) == CHOOSE n \in 0..(Len(REF) - 1) : REF[n + 1] = c

\* The bar pattern of a member of the Code 39 alphabet.
PatternOf(c) == CODES[OrdOf(c) + 1]

\* The sum of the ordinals of the characters of s.
OrdSum(s) ==
    LET acc[k \in 0..Len(s)] == IF k = 0 THEN 0 ELSE acc[k - 1] + OrdOf(s[k])
    IN  acc[Len(s)]

OverAlphabet(s) == \A k \in 1..Len(s) : s[k] \in RefSet

AllDigits(s) == \A k \in 1..Len(s) : s[k] \in Range(Digits)

DigitVal(c) == CHOOSE n \in 0..9 : Digits[n + 1] = c

\* 2*d1 + 3*d2 + 4*d3 + 5*d4 + 6*d5 + 7*d6 of a 6-digit string.
Weighted6(d) ==
    2 * DigitVal(d[1]) + 3 * DigitVal(d[2]) + 4 * DigitVal(d[3])
        + 5 * DigitVal(d[4]) + 6 * DigitVal(d[5]) + 7 * DigitVal(d[6])

----------------------------------------------------------------------------
(* C1.                                                                     *)

\* C1: whenever Code39 is constructed with add_checksum=True from a string
\* that, upper-cased, has a character outside the Code 39 alphabet, the
\* constructor fails with IllegalCharacterError and with nothing else: the
\* alphabet check comes before the modulo-43 checksum.
C1_AlphabetCheckBeforeChecksum ==
    (op = "Code39" /\ flag /\ ~OverAlphabet(Upper(arg)))
        => /\ exc = "IllegalCharacterError"
           /\ "calculate_checksum" \notin Range(steps)

----------------------------------------------------------------------------
(* C2.                                                                     *)

\* C2: check_code raises IllegalCharacterError exactly when some character
\* of the code is not in `allowed`; the list it reports is then the
\* characters of the code that are not allowed, in order, duplicates kept;
\* otherwise it returns None, reports nothing and changes nothing.
C2_CheckCode ==
    op = "check_code" =>
        /\ exc \in {"none", "IllegalCharacterError"}
        /\ (exc = "IllegalCharacterError")
               <=> (\E k \in 1..Len(arg) : arg[k] \notin allow)
        /\ wrong = SelectSeq(arg, LAMBDA c : c \notin allow)
        /\ ret = <<>>
        /\ cls = "none" /\ code = <<>> /\ pzn = <<>> /\ builds = <<>>
        /\ charset = "" /\ buffer = <<>>

\* check_code has rejected a code with a repeated offending character and
\* an allowed one.
C2_Witness ==
    /\ op = "check_code"
    /\ exc = "IllegalCharacterError"
    /\ Len(wrong) = 2
    /\ wrong[1] = wrong[2]
    /\ Len(arg) = 3

----------------------------------------------------------------------------
(* C3.                                                                     *)

\* The one member of the alphabet whose ordinal is n, if ch is it.
IsTheMemberWithOrdinal(ch, n) ==
    /\ ch \in RefSet
    /\ OrdOf(ch) = n
    /\ \A c \in RefSet : OrdOf(c) = n => c = ch

C3_ChecksumValue ==
    /\ (op = "Code39" /\ flag /\ OverAlphabet(Upper(arg)))
           => /\ exc = "none"
              /\ Len(code) = Len(arg) + 1
              /\ SubSeq(code, 1, Len(arg)) = Upper(arg)
              /\ IsTheMemberWithOrdinal(code[Len(code)],
                                        OrdSum(Upper(arg)) % 43)
    /\ (op = "calculate_checksum" /\ cls = "Code39")
           => /\ exc = "none"
              /\ Len(ret) = 1
              /\ IsTheMemberWithOrdinal(ret[1], OrdSum(code) % 43)

\* C3: over the Code 39 alphabet (the empty string included)
\* calculate_checksum always returns one character, the only member of the
\* alphabet whose ordinal is the sum of the ordinals of the code modulo 43,
\* and calling it again on the same code returns the same character.
C3_Checksum ==
    /\ []C3_ChecksumValue
    /\ [][(op = "calculate_checksum" /\ op' = "calculate_checksum")
              => ret' = ret]_vars

\* A checksum has been appended to a code whose ordinals sum past 43.
C3_Witness ==
    /\ op = "Code39"
    /\ flag
    /\ exc = "none"
    /\ Len(arg) = 2
    /\ OrdSum(Upper(arg)) > 43

----------------------------------------------------------------------------
(* C4.                                                                     *)

\* pattern(c1) GAP pattern(c2) GAP ... pattern(cN) GAP EDGE
RECURSIVE PatternsThenEdge(_)
PatternsThenEdge(s) ==
    IF s = <<>> THEN EDGE
    ELSE PatternOf(Head(s)) \o MIDDLE \o PatternsThenEdge(Tail(s))

\* C4 as stated: build returns EDGE immediately followed by pattern(c1),
\* with a GAP between character patterns and before the closing EDGE only.
C4_NoGapAfterOpeningEdge ==
    (op = "build" /\ cls = "Code39" /\ Len(code) >= 1)
        => ret = << <<EDGE \o PatternsThenEdge(code)>> >>

\* C4, amended: build returns one string, EDGE GAP pattern(c1) GAP ...
\* pattern(cN) GAP EDGE, with a GAP after the opening EDGE as well.
C4_GapBetweenAllParts ==
    (op = "build" /\ cls = "Code39" /\ Len(code) >= 1)
        => /\ exc = "none"
           /\ ret = << <<EDGE \o MIDDLE \o PatternsThenEdge(code)>> >>
           /\ Len(ret[1][1]) = 15 * (Len(code) + 2) + Len(code) + 1

\* A code of three characters has been built.
C4_Witness ==
    /\ op = "build"
    /\ cls = "Code39"
    /\ exc = "none"
    /\ Len(code) = 3
    /\ Len(ret) = 1

----------------------------------------------------------------------------
(* C5.                                                                     *)

\* C5 as stated, for the non-empty inputs: every all-digit input whose
\* length is not 6, shorter or longer, makes PZN fail with
\* NumberOfDigitsError before any checksum arithmetic, and no code is
\* produced.
C5_AnyOtherLengthRejected ==
    (op = "PZN" /\ AllDigits(arg) /\ Len(arg) >= 1 /\ Len(arg) # 6)
        => /\ exc = "NumberOfDigitsError"
           /\ "PZN.calculate_checksum" \notin Range(steps)
           /\ cls = "none" /\ code = <<>> /\ pzn = <<>>

\* C5, amended: an all-digit input of 1 to 5 characters makes PZN fail with
\* NumberOfDigitsError before any checksum arithmetic, and no code is
\* produced; the empty input fails with IllegalCharacterError; an input of
\* more than 6 digits is cut to its first 6 and is never rejected for its
\* length.
C5_ShortInputRejected ==
    (op = "PZN" /\ AllDigits(arg))
        => /\ (Len(arg) >= 1 /\ Len(arg) < 6)
                  => /\ exc = "NumberOfDigitsError"
                     /\ "PZN.calculate_checksum" \notin Range(steps)
                     /\ cls = "none" /\ code = <<>> /\ pzn = <<>>
           /\ Len(arg) = 0 => exc = "IllegalCharacterError"
           /\ Len(arg) > 6
                  => /\ exc \in {"none", "BarcodeError"}
                     /\ exc = "none" => SubSeq(pzn, 1, 6) = SubSeq(arg, 1, 6)

\* Five digits have been rejected for their number.
C5_Witness ==
    /\ op = "PZN"
    /\ AllDigits(arg)
    /\ Len(arg) = 5
    /\ exc = "NumberOfDigitsError"

----------------------------------------------------------------------------
(* C6.                                                                     *)

\* C6: a 6-digit input whose weighted sum modulo 11 is not 10 constructs a
\* PZN whose check digit is that remainder; get_fullcode returns "PZN-",
\* the 6 digits and the check digit, and that same string is the code the
\* Code 39 part receives and builds, with no modulo-43 character added.
C6_FullCode ==
    (op # "start" /\ Len(arg) = 6 /\ AllDigits(arg)
         /\ Weighted6(arg) % 11 # 10)
        => LET full == <<"P", "Z", "N", "-">> \o arg
                           \o <<Digits[(Weighted6(arg) % 11) + 1]>>
           IN  /\ cls = "PZN"
               /\ pzn = SubSeq(full, 5, 11)
               /\ code = full
               /\ op = "PZN"
                      => /\ exc = "none"
                         /\ "Code39.__init__" \in Range(steps)
                         /\ "calculate_checksum" \notin Range(steps)
               /\ op = "get_fullcode" => ret = <<full>>
               /\ op = "build"
                      => /\ exc = "none"
                         /\ Len(ret[1][1]) = 15 * 13 + 12

\* get_fullcode of PZN("100000") has returned "PZN-1000002".
C6_Witness ==
    /\ op = "get_fullcode"
    /\ arg = <<"1", "0", "0", "0", "0", "0">>
    /\ ret = << <<"P", "Z", "N", "-", "1", "0", "0", "0", "0", "0", "2">> >>

----------------------------------------------------------------------------
(* C7.                                                                     *)

\* C7: a 6-digit input whose weighted sum modulo 11 is 10 makes PZN fail
\* with BarcodeError: no digit stands in for the checksum, no full code
\* exists and the Code 39 part is never reached.
C7_ChecksumTenRejected ==
    (op # "start" /\ Len(arg) = 6 /\ AllDigits(arg)
         /\ Weighted6(arg) % 11 = 10)
        => /\ op = "PZN"
           /\ exc = "BarcodeError"
           /\ cls = "none" /\ code = <<>> /\ pzn = <<>>
           /\ "Code39.__init__" \notin Range(steps)
           /\ "check_code" \notin Range(steps)

\* PZN("010001"), weighted sum 3 + 7 = 10, has been rejected.
C7_Witness ==
    /\ op = "PZN"
    /\ arg = <<"0", "1", "0", "0", "0", "1">>
    /\ exc = "BarcodeError"

----------------------------------------------------------------------------
(* C8.                                                                     *)

\* Position p (from 0) of s starts a run of digits.
RunStartsAt(s, p) ==
    /\ IsDigitChar(s[p + 1])
    /\ p = 0 \/ ~IsDigitChar(s[p])

\* The length of the run of digits of s from position p (from 0) on.
RunLength(s, p) ==
    LET n[k \in p..Len(s)] ==
            IF k = Len(s) \/ ~IsDigitChar(s[k + 1]) THEN 0 ELSE 1 + n[k + 1]
    IN  n[p]

\* How many switch-to-C symbols a stream of symbols holds.
SwitchesToC(encoded) ==
    Cardinality({k \in 1..Len(encoded) :
                     encoded[k] \in {<<"A", "TO_C">>, <<"B", "TO_C">>}})

\* C8: in a build, a run of at most 3 digits never brings a switch to
\* charset C and a run of 4 or more always does, at the position where the
\* run begins: the stream holds one switch to C per run of 4 or more, and
\* when the code opens with such a run the switch follows the start symbol.
C8_DigitRunSwitch ==
    (cls = "Code128" /\ Len(builds) >= 1)
        => LET b == builds[1]
           IN  /\ b.exc = "none"
               /\ SwitchesToC(b.encoded)
                      = Cardinality({p \in 0..(Len(code) - 1) :
                                         /\ RunStartsAt(code, p)
                                         /\ RunLength(code, p) >= 4})
               /\ (Len(code) >= 1 /\ RunLength(code, 0) >= 4)
                      => /\ Len(b.encoded) >= 2
                         /\ b.encoded[2] = <<"B", "TO_C">>

----------------------------------------------------------------------------
(* C9.                                                                     *)

\* C9: a second build on the same Code128 object starts from charset B
\* with an empty buffer, emits the same start symbol and returns the same
\* pattern stream as the first, whatever charset was active when the first
\* one ended.
C9_BuildStartsAfresh ==
    (cls = "Code128" /\ Len(builds) >= 2)
        => /\ builds[1].exc = "none"
           /\ builds[2].exc = "none"
           /\ builds[2].from = "B"
           /\ builds[2].buffer = <<>>
           /\ builds[2].encoded[1] = <<"START", "B">>
           /\ builds[2].encoded = builds[1].encoded

----------------------------------------------------------------------------
(* C10.                                                                    *)

\* C10: _maybe_switch_charset, called while charset C is active, leaves C
\* when the character at the position is not a digit (to B if the character
\* is in subset B, else to A), emitting one switch symbol first and then a
\* single buffered digit, if there is one, in the new charset, the buffer
\* ending empty; when the character is a digit it emits nothing and leaves
\* charset and buffer as they were.
C10_LeaveC ==
    [][(op' = "_maybe_switch_charset" /\ charset = "C")
           => LET char == code[lastpos' + 1]
                  to == IF char \in Code128_B THEN "B" ELSE "A"
              IN  IF ~IsDigitChar(char)
                      THEN /\ exc' = "none"
                           /\ charset' = to
                           /\ ret' = << <<<<"C", "TO_" \o to>>>>
                                        \o (IF Len(buffer) = 1
                                                THEN << <<to, buffer[1]>> >>
                                                ELSE <<>>) >>
                           /\ Len(buffer) = 1 => buffer' = <<>>
                      ELSE /\ exc' = "none"
                           /\ ret' = << <<>> >>
                           /\ charset' = charset
                           /\ buffer' = buffer]_vars

====
